---- MODULE Spec2Model ----
(***************************************************************************)
(* The document-to-chart pipeline of                                       *)
(* multimodal-generation/workshop-sample/NovaCanvas/01-text-to-image.ipynb *)
(* (cells "Step 2" .. "Step 7"): concurrent download + rasterization of    *)
(* the earnings PDFs, the planner call, the per-document worker fan-out,   *)
(* the aggregation, the synthesis call and extract_code / exec.            *)
(*                                                                         *)
(* Python strings are sequences of one-character strings where the code    *)
(* indexes them by character (extract_code), and sequences of tokens where *)
(* it only splits and joins them (URLs, paths: "/" and "-" are tokens of   *)
(* their own).  Python values whose type varies are records (type, val).   *)
(***************************************************************************)
EXTENDS Integers, Sequences, FiniteSets, TLC

VARIABLES
    QUESTION,            \* the user's question handed to generate_prompt_for_lite
    urls,                \* the source locators handed to the process_pdf fan-out
    pc,                  \* position of the main thread in the notebook
    crashedAt,           \* the cell in which an uncaught exception ended the run
    ftask,               \* fetch pool: state of the process_pdf task of each url
    fres,                \* fetch pool: result of each finished process_pdf task
    fk,                  \* index of the next result list(executor.map(..)) waits for
    disk,                \* downloads folder: path -> document stored there
    docPages,            \* number of pages of each downloaded document (0: not yet read)
    docDims,             \* page sizes, in points, of each downloaded document
    failedDownloads,     \* urls for which download_pdf printed "Failed to download"
    pdf_results,         \* list of (pdf_path, base64_encoded_pngs)
    plannerCalls,        \* number of invoke_model calls made by generate_prompt_for_lite
    pstate,              \* planner call: "none", "pending", "ok", "error"
    lite_prompt,         \* result of generate_prompt_for_lite
    wtask,               \* worker pool: state of the extract_info task of each entry
    wreq,                \* worker pool: request body each task sent
    wres,                \* worker pool: (text, pdf_path) each task returned
    wk,                  \* index of the next worker result the main thread waits for
    completed,           \* worker tasks in the order they finished
    extracted_info_list, \* list of (info, pdf_path)
    extracted_info,      \* the combined context string
    sstate,              \* synthesis call: "none", "pending", "ok", "error"
    sreq,                \* the text part of the synthesis request
    content_text,        \* text of the synthesis response
    code,                \* first component of extract_code(content_text)
    text,                \* second component of extract_code(content_text)
    stdout,              \* what the main thread printed, in order
    executed             \* code fragments handed to exec, in order

vars == <<QUESTION, urls, pc, crashedAt, ftask, fres, fk, disk, docPages, docDims,
          failedDownloads, pdf_results, plannerCalls, pstate, lite_prompt,
          wtask, wreq, wres, wk, completed, extracted_info_list,
          extracted_info, sstate, sreq, content_text, code, text, stdout,
          executed>>

fetchVars == <<ftask, fres, fk, disk, docPages, docDims, failedDownloads,
              pdf_results>>
plannerVars == <<plannerCalls, pstate, lite_prompt>>
workerVars == <<wtask, wreq, wres, wk, completed, extracted_info_list,
                extracted_info>>
synthVars == <<sstate, sreq, content_text>>
parseVars == <<code, text, executed>>

----------------------------------------------------------------------------
(* Bounds *)

\* pages a downloaded document may have
MaxPages == 2

\* the longest list of locators the fan-out on its own is tried with
MaxUrls == 2

----------------------------------------------------------------------------
(* Python values and string operations *)

PyNone == [type |-> "NoneType", val |-> <<>>]
PyStr(s) == [type |-> "str", val |-> s]
PyInt(digits) == [type |-> "int", val |-> digits]

\* bool(v)
Truthy(v) ==
    CASE v.type = "NoneType" -> FALSE
      [] v.type = "str" -> v.val # <<>>
      [] v.type = "int" -> v.val # <<"0">>

IsStr(v) == v.type = "str"

SetMin(S) == CHOOSE x \in S : \A y \in S : x <= y

\* sub occurs in s at 0-based offset i
OccursAt(sub, s, i) ==
    /\ i + Len(sub) <= Len(s)
    /\ \A j \in 1..Len(sub) : s[i + j] = sub[j]

\* s.find(sub): lowest 0-based offset, or -1
Find(s, sub) ==
    LET hits == {i \in 0..(Len(s) - Len(sub)) : OccursAt(sub, s, i)}
    IN  IF hits = {} THEN -1 ELSE SetMin(hits)

\* a slice bound clamped as Python clamps it
SliceBound(i, n) ==
    IF i < 0 THEN (IF i + n < 0 THEN 0 ELSE i + n)
    ELSE (IF i > n THEN n ELSE i)

\* s[a:b]
PySlice(s, a, b) ==
    LET lo == SliceBound(a, Len(s))
        hi == SliceBound(b, Len(s))
    IN  IF lo >= hi THEN <<>> ELSE SubSeq(s, lo + 1, hi)

Whitespace == {" ", "\n", "\t"}

\* s.strip()
Strip(s) ==
    LET keep == {i \in 1..Len(s) : s[i] \notin Whitespace}
    IN  IF keep = {} THEN <<>>
        ELSE SubSeq(s, SetMin(keep), CHOOSE i \in keep : \A j \in keep : j <= i)

\* s.split(sep) on a token sequence: the pieces between the separators
RECURSIVE Split(_, _)
Split(s, sep) ==
    LET at == {i \in 1..Len(s) : s[i] = sep}
    IN  IF at = {} THEN <<s>>
        ELSE <<SubSeq(s, 1, SetMin(at) - 1)>>
             \o Split(SubSeq(s, SetMin(at) + 1, Len(s)), sep)

Last(q) == q[Len(q)]

\* os.path.join(folder, name)
PathJoin(dir, name) ==
    IF name # <<>> /\ name[1] = "/" THEN name
    ELSE IF dir = <<>> \/ Last(dir) = "/" THEN dir \o name
    ELSE dir \o <<"/">> \o name

\* os.path.basename(path)
Basename(path) == Last(Split(path, "/"))

----------------------------------------------------------------------------
(* Step 2: the documents and the question *)

pdf_urls == <<
    <<"https:", "/", "/", "s2.q4cdn.com", "/", "299287126", "/", "files", "/",
      "doc_financials", "/", "2023", "/", "q1", "/",
      "Q1", "-", "2023", "-", "Amazon", "-", "Earnings", "-", "Release.pdf">>,
    <<"https:", "/", "/", "s2.q4cdn.com", "/", "299287126", "/", "files", "/",
      "doc_financials", "/", "2023", "/", "q2", "/",
      "Q2", "-", "2023", "-", "Amazon", "-", "Earnings", "-", "Release.pdf">>,
    <<"https:", "/", "/", "s2.q4cdn.com", "/", "299287126", "/", "files", "/",
      "doc_financials", "/", "2023", "/", "q3", "/",
      "AMZN", "-", "Q3", "-", "2023", "-", "Earnings", "-", "Release.pdf">>,
    <<"https:", "/", "/", "s2.q4cdn.com", "/", "299287126", "/", "files", "/",
      "doc_financials", "/", "2023", "/", "q4", "/",
      "AMZN", "-", "Q4", "-", "2023", "-", "Earnings", "-", "Release.pdf">> >>

\* locators the fan-out on its own is tried with: two of the configured ones
\* and a copy of the first document kept on another host
UrlPool ==
    {pdf_urls[1], pdf_urls[3],
     <<"https:", "/", "/", "mirror.example.com", "/", "ir", "/",
       "Q1", "-", "2023", "-", "Amazon", "-", "Earnings", "-", "Release.pdf">>}

\* the lists of locators the fan-out on its own is tried with
UrlLists == UNION {[1..n -> UrlPool] : n \in 1..MaxUrls}

\* the indices of the locators handed to the fan-out
Docs == 1..Len(urls)

QuestionText ==
    <<"How did Amazon's net sales change quarter to quarter in the 2023 financial year and what contributed to the changes?">>

\* the values tried as the question argument
Questions ==
    {PyStr(QuestionText), PyStr(<<>>), PyNone, PyInt(<<"0">>), PyInt(<<"5">>)}

folder == <<"..", "/", "downloads", "/", "pdfs">>

----------------------------------------------------------------------------
(* Step 3: download and convert *)

\* the file is named after the host of the url
FileNameFromHost(url) == PathJoin(folder, Split(url, "/")[3])

\* file_name = os.path.join(folder, url.split("/")[-1])
FileName(url) == PathJoin(folder, Last(Split(url, "/")))

PdfNone == [isNone |-> TRUE, path |-> <<>>, pngs |-> <<>>]
PdfResult(path, pngs) == [isNone |-> FALSE, path |-> path, pngs |-> pngs]

\* max_size=(1024, 1024)
max_size == <<1024, 1024>>

\* fitz.Matrix(300/72, 300/72): pixels per inch over points per inch
RenderDpi == 300
PointsPerInch == 72

\* page sizes, in points, the documents are tried with: US letter upright and
\* on its side, a page that renders below the cap, one that exceeds it in
\* width only, and a very long strip
PageSizes == {<<612, 792>>, <<792, 612>>, <<144, 144>>, <<246, 72>>, <<72, 7200>>}

\* the documents the rasterizer is tried on: every page sequence up to MaxPages
RasterInputs == UNION {[1..n -> PageSizes] : n \in 1..MaxPages}

\* the documents a whole pipeline run is tried on: a single page, and MaxPages
\* pages that alternate between upright letter and a wide banner
PipelineDocs ==
    {[p \in 1..n |-> IF p % 2 = 1 THEN <<612, 792>> ELSE <<246, 72>>] :
        n \in {1, MaxPages}}

CeilDiv(a, b) == IF a % b = 0 THEN a \div b ELSE (a \div b) + 1

Abs(x) == IF x < 0 THEN 0 - x ELSE x

\* page.get_pixmap(matrix=...): the size in pixels of a page given in points
Rendered(size) ==
    <<CeilDiv(size[1] * RenderDpi, PointsPerInch),
      CeilDiv(size[2] * RenderDpi, PointsPerInch)>>

\* Image.thumbnail(max, LANCZOS): the size the image is reduced to, keeping the
\* aspect ratio; of floor and ceiling the one whose ratio is nearer, at least 1
Thumbnail(size, max) ==
    LET w == size[1]
        h == size[2]
        x == max[1]
        y == max[2]
        xlo == (y * w) \div h
        xhi == CeilDiv(y * w, h)
        xpick == IF Abs(w * y - xlo * h) <= Abs(w * y - xhi * h) THEN xlo ELSE xhi
        ylo == (x * h) \div w
        yhi == CeilDiv(x * h, w)
        ypick == IF ylo = 0 THEN ylo
                 ELSE IF Abs(w * ylo - x * h) * yhi <= Abs(w * yhi - x * h) * ylo
                      THEN ylo ELSE yhi
    IN  IF x >= w /\ y >= h THEN size
        ELSE IF x * h >= y * w
             THEN <<IF xpick < 1 THEN 1 ELSE xpick, y>>
             ELSE <<x, IF ypick < 1 THEN 1 ELSE ypick>>

\* the test written with "and"
NeedsResizeBoth(size, max) == size[1] > max[1] /\ size[2] > max[2]

\* if image.size[0] > max_size[0] or image.size[1] > max_size[1]
NeedsResize(size, max) == size[1] > max[1] \/ size[2] > max[2]

\* the size of the image saved for a page
ImageSize(size) ==
    IF NeedsResize(Rendered(size), max_size)
    THEN Thumbnail(Rendered(size), max_size)
    ELSE Rendered(size)

\* the base64 PNG of page p of document d, whose image has the given size
Png(d, p, size) == [doc |-> d, page |-> p, width |-> size[1], height |-> size[2]]

\* pdf_to_base64_pngs: one image per page of the document stored at the path,
\* in page order
pdf_to_base64_pngs(doc, pages) ==
    [p \in 1..Len(pages) |-> Png(doc, p, ImageSize(pages[p]))]

FetchRunning == {"get", "writing", "saved"}
FetchReturned == {"none", "ok"}
FetchRaised == {"oserror", "rasterror"}

\* with ThreadPoolExecutor() as executor: executor.map(process_pdf, ...)
\* submits one task per url and the main thread starts collecting results
FetchFanOut ==
    /\ pc = "fetch"
    /\ ftask' = [d \in Docs |-> "pending"]
    /\ fk' = 1
    /\ pc' = "fetch_collect"
    /\ UNCHANGED <<QUESTION, urls, crashedAt, fres, disk, docPages, docDims,
                   failedDownloads, pdf_results, plannerVars, workerVars,
                   synthVars, parseVars, stdout>>

\* a pool thread picks the task up: process_pdf -> download_pdf -> requests.get
FetchStart(d) ==
    /\ pc \in {"fetch_collect", "fetch_abort"}
    /\ ftask[d] = "pending"
    /\ ftask' = [ftask EXCEPT ![d] = "get"]
    /\ UNCHANGED <<QUESTION, urls, pc, crashedAt, fres, fk, disk, docPages,
                   docDims, failedDownloads, pdf_results, plannerVars,
                   workerVars, synthVars, parseVars, stdout>>

\* requests.RequestException from requests.get, raise_for_status or
\* iter_content: printed, download_pdf returns None and so does process_pdf
DownloadFail(d) ==
    /\ ftask[d] \in {"get", "writing"}
    /\ ftask' = [ftask EXCEPT ![d] = "none"]
    /\ fres' = [fres EXCEPT ![d] = PdfNone]
    /\ failedDownloads' = failedDownloads \cup {urls[d]}
    /\ UNCHANGED <<QUESTION, urls, pc, crashedAt, fk, disk, docPages, docDims,
                   pdf_results, plannerVars, workerVars, synthVars, parseVars,
                   stdout>>

\* open() or file.write() raises OSError: not a RequestException, so it leaves
\* download_pdf and process_pdf and the task ends with the exception
DownloadWriteError(d) ==
    /\ ftask[d] \in {"get", "writing"}
    /\ ftask' = [ftask EXCEPT ![d] = "oserror"]
    /\ UNCHANGED <<QUESTION, urls, pc, crashedAt, fres, fk, disk, docPages,
                   docDims, failedDownloads, pdf_results, plannerVars,
                   workerVars, synthVars, parseVars, stdout>>

\* the response is good and open(file_name, "wb") succeeds: the task holds the
\* file open and writes the chunks to it
DownloadOpen(d) ==
    /\ ftask[d] = "get"
    /\ ftask' = [ftask EXCEPT ![d] = "writing"]
    /\ UNCHANGED <<QUESTION, urls, pc, crashedAt, fres, fk, disk, docPages,
                   docDims, failedDownloads, pdf_results, plannerVars,
                   workerVars, synthVars, parseVars, stdout>>

\* the last chunk is written and the file closed: file_name now holds the
\* document, and download_pdf returns file_name
DownloadOk(d) ==
    /\ ftask[d] = "writing"
    /\ ftask' = [ftask EXCEPT ![d] = "saved"]
    /\ disk' = (FileName(urls[d]) :> d) @@ disk
    /\ \E pages \in PipelineDocs : docDims' = [docDims EXCEPT ![d] = pages]
    /\ UNCHANGED <<QUESTION, urls, pc, crashedAt, fres, fk, docPages,
                   failedDownloads, pdf_results, plannerVars, workerVars,
                   synthVars, parseVars, stdout>>

\* process_pdf returns (pdf_path, pdf_to_base64_pngs(pdf_path)): the images of
\* the document found at pdf_path
RasterOk(d) ==
    /\ ftask[d] = "saved"
    /\ LET path == FileName(urls[d])
           doc == disk[path]
       IN  /\ docPages' = [docPages EXCEPT ![doc] = Len(docDims[doc])]
           /\ fres' = [fres EXCEPT ![d] =
                           PdfResult(path, pdf_to_base64_pngs(doc, docDims[doc]))]
    /\ ftask' = [ftask EXCEPT ![d] = "ok"]
    /\ UNCHANGED <<QUESTION, urls, pc, crashedAt, fk, disk, docDims,
                   failedDownloads, pdf_results, plannerVars, workerVars,
                   synthVars, parseVars, stdout>>

\* fitz.open or get_pixmap raises on an unreadable document: nothing catches it
RasterFail(d) ==
    /\ ftask[d] = "saved"
    /\ ftask' = [ftask EXCEPT ![d] = "rasterror"]
    /\ UNCHANGED <<QUESTION, urls, pc, crashedAt, fres, fk, disk, docPages, docDims,
                   failedDownloads, pdf_results, plannerVars, workerVars,
                   synthVars, parseVars, stdout>>

\* list(executor.map(..)) takes the next result, in submission order
FetchCollect ==
    /\ pc = "fetch_collect"
    /\ fk <= Len(urls)
    /\ ftask[fk] \in FetchReturned
    /\ fk' = fk + 1
    /\ UNCHANGED <<QUESTION, urls, pc, crashedAt, ftask, fres, disk, docPages, docDims,
                   failedDownloads, pdf_results, plannerVars, workerVars,
                   synthVars, parseVars, stdout>>

\* the next result is an exception: it is re-raised in the main thread, the
\* map generator cancels the tasks no thread has started, and the with block
\* waits for the started ones
FetchRaise ==
    /\ pc = "fetch_collect"
    /\ fk <= Len(urls)
    /\ ftask[fk] \in FetchRaised
    /\ ftask' = [d \in Docs |-> IF ftask[d] = "pending" THEN "cancelled"
                                ELSE ftask[d]]
    /\ pc' = "fetch_abort"
    /\ UNCHANGED <<QUESTION, urls, crashedAt, fres, fk, disk, docPages, docDims,
                   failedDownloads, pdf_results, plannerVars, workerVars,
                   synthVars, parseVars, stdout>>

\* executor shutdown done: the exception leaves the cell
FetchAbort ==
    /\ pc = "fetch_abort"
    /\ \A d \in Docs : ftask[d] \notin FetchRunning
    /\ pc' = "crashed"
    /\ crashedAt' = "fetch"
    /\ UNCHANGED <<QUESTION, urls, fetchVars, plannerVars, workerVars, synthVars,
                   parseVars, stdout>>

\* [r for r in results if r is not None]
NotNone(results) ==
    LET kept == {i \in 1..Len(results) : ~results[i].isNone}
        RECURSIVE Pick(_)
        Pick(S) == IF S = {} THEN <<>>
                   ELSE <<results[SetMin(S)]>> \o Pick(S \ {SetMin(S)})
    IN  Pick(kept)

\* all results collected: pdf_results = the results that are not None
FetchDone ==
    /\ pc = "fetch_collect"
    /\ fk = Len(urls) + 1
    /\ pdf_results' = NotNone([d \in Docs |-> fres[d]])
    /\ pc' = "planner"
    /\ UNCHANGED <<QUESTION, urls, crashedAt, ftask, fres, fk, disk, docPages, docDims,
                   failedDownloads, plannerVars, workerVars, synthVars,
                   parseVars, stdout>>

----------------------------------------------------------------------------
(* Step 4: the planner *)

LitePromptText ==
    <<"Extract the net sales of the quarter and what contributed to their change.">>

\* content texts the planner model may answer with
PlannerTexts == {<<>>, LitePromptText}

\* the check without its isinstance test
QuestionRejectedNoTypeCheck(question) == ~Truthy(question)

\* if not question or not isinstance(question, str): raise ValueError
QuestionRejected(question) == ~Truthy(question) \/ ~IsStr(question)

\* the test written as "lite_prompt is None"
PromptIsNone(prompt) == prompt.type = "NoneType"

\* if not lite_prompt: ... exit(1)
PromptMissing(prompt) == ~Truthy(prompt)

\* the planner request sent without waiting for its answer
PlannerCallNoWait ==
    /\ pc = "planner"
    /\ ~QuestionRejected(QUESTION)
    /\ plannerCalls' = plannerCalls + 1
    /\ pstate' = "pending"
    /\ lite_prompt' = PyStr(LitePromptText)
    /\ pc' = "workers"
    /\ UNCHANGED <<QUESTION, urls, crashedAt, fetchVars, workerVars, synthVars,
                   parseVars, stdout>>

\* the planner cell up to client.invoke_model: generate_prompt_for_lite(QUESTION)
\* raises ValueError, which nothing catches, or sends its one request and blocks
PlannerCall ==
    /\ pc = "planner"
    /\ IF QuestionRejected(QUESTION)
       THEN /\ pc' = "crashed"
            /\ crashedAt' = "planner"
            /\ UNCHANGED plannerVars
       ELSE /\ plannerCalls' = plannerCalls + 1
            /\ pstate' = "pending"
            /\ pc' = "planner_wait"
            /\ UNCHANGED <<crashedAt, lite_prompt>>
    /\ UNCHANGED <<QUESTION, urls, fetchVars, workerVars, synthVars, parseVars,
                   stdout>>

\* where the main thread goes after lite_prompt is assigned
AfterPlanner(prompt) == IF PromptMissing(prompt) THEN "exited" ELSE "workers"

\* invoke_model answers: content_text is printed and returned, then the cell
\* tests it
PlannerOk ==
    /\ pc = "planner_wait"
    /\ pstate = "pending"
    /\ \E t \in PlannerTexts :
        /\ lite_prompt' = PyStr(t)
        /\ pc' = AfterPlanner(PyStr(t))
        /\ stdout' = stdout \o <<"[Formatted Response Content Text]">> \o t
                     \o (IF PromptMissing(PyStr(t))
                         THEN <<"Failed to generate prompt. Exiting.">>
                         ELSE <<>>)
    /\ pstate' = "ok"
    /\ UNCHANGED <<QUESTION, urls, crashedAt, fetchVars, plannerCalls, workerVars,
                   synthVars, parseVars>>

\* invoke_model (or reading its answer) raises: except Exception prints and
\* returns None, and the cell exits
PlannerError ==
    /\ pc = "planner_wait"
    /\ pstate = "pending"
    /\ pstate' = "error"
    /\ lite_prompt' = PyNone
    /\ pc' = AfterPlanner(PyNone)
    /\ stdout' = stdout \o <<"Error generating prompt",
                             "Failed to generate prompt. Exiting.">>
    /\ UNCHANGED <<QUESTION, urls, crashedAt, fetchVars, plannerCalls, workerVars,
                   synthVars, parseVars>>

----------------------------------------------------------------------------
(* Step 5: the workers and the aggregation *)

NoRequest == [modelId |-> "", content |-> <<>>]

\* the request body with the first page left out
ExtractInfoRequestSkipFirst(pdf_path, base64_encoded_pngs, prompt) ==
    [modelId |-> "us.amazon.nova-lite-v1:0",
     content |->
        [p \in 1..(Len(base64_encoded_pngs) - 1) |->
            [kind |-> "image", body |-> base64_encoded_pngs[p + 1]]]
        \o <<[kind |-> "text", body |-> prompt.val]>>]

\* the request body extract_info builds: one image part per png, then the prompt
ExtractInfoRequest(pdf_path, base64_encoded_pngs, prompt) ==
    [modelId |-> "us.amazon.nova-lite-v1:0",
     content |->
        [p \in 1..Len(base64_encoded_pngs) |->
            [kind |-> "image", body |-> base64_encoded_pngs[p]]]
        \o <<[kind |-> "text", body |-> prompt.val]>>]

IsImage(part) == part.kind = "image"

\* the images a request carries, in order
ImageParts(req) ==
    LET parts == SelectSeq(req.content, IsImage)
    IN  [p \in 1..Len(parts) |-> parts[p].body]

\* the light model, stubbed: its answer depends on the pages it is shown
LiteAnswer(req) ==
    IF ImageParts(req) = <<>> THEN <<"no pages">>
    ELSE <<"net sales in ">> \o Last(Split(urls[ImageParts(req)[1].doc], "/"))

WorkerRunning == {"running"}

\* executor.map(lambda x: extract_info(x[0], x[1], lite_prompt), pdf_results)
WorkerFanOut ==
    /\ pc = "workers"
    /\ wtask' = [i \in 1..Len(pdf_results) |-> "pending"]
    /\ wreq' = [i \in 1..Len(pdf_results) |-> NoRequest]
    /\ wres' = [i \in 1..Len(pdf_results) |-> <<>>]
    /\ wk' = 1
    /\ pc' = "workers_collect"
    /\ UNCHANGED <<QUESTION, urls, crashedAt, fetchVars, plannerVars, completed,
                   extracted_info_list, extracted_info, synthVars, parseVars,
                   stdout>>

\* a pool thread picks task i up: extract_info builds the request from entry i
\* and calls client.invoke_model
WorkerStart(i) ==
    /\ pc \in {"workers_collect", "workers_abort"}
    /\ wtask[i] = "pending"
    /\ wtask' = [wtask EXCEPT ![i] = "running"]
    /\ wreq' = [wreq EXCEPT ![i] =
                   ExtractInfoRequest(pdf_results[i].path, pdf_results[i].pngs,
                                      lite_prompt)]
    /\ UNCHANGED <<QUESTION, urls, pc, crashedAt, fetchVars, plannerVars, wres, wk,
                   completed, extracted_info_list, extracted_info, synthVars,
                   parseVars, stdout>>

\* the call returns: extract_info returns (text, pdf_path)
WorkerOk(i) ==
    /\ wtask[i] = "running"
    /\ wtask' = [wtask EXCEPT ![i] = "ok"]
    /\ wres' = [wres EXCEPT ![i] = <<LiteAnswer(wreq[i]), pdf_results[i].path>>]
    /\ completed' = Append(completed, i)
    /\ UNCHANGED <<QUESTION, urls, pc, crashedAt, fetchVars, plannerVars, wreq, wk,
                   extracted_info_list, extracted_info, synthVars, parseVars,
                   stdout>>

\* the call raises: extract_info catches nothing
WorkerFail(i) ==
    /\ wtask[i] = "running"
    /\ wtask' = [wtask EXCEPT ![i] = "error"]
    /\ UNCHANGED <<QUESTION, urls, pc, crashedAt, fetchVars, plannerVars, wreq, wres,
                   wk, completed, extracted_info_list, extracted_info,
                   synthVars, parseVars, stdout>>

\* list(executor.map(..)) takes the next result, in submission order
WorkerCollect ==
    /\ pc = "workers_collect"
    /\ wk <= Len(pdf_results)
    /\ wtask[wk] = "ok"
    /\ wk' = wk + 1
    /\ UNCHANGED <<QUESTION, urls, pc, crashedAt, fetchVars, plannerVars, wtask, wreq,
                   wres, completed, extracted_info_list, extracted_info,
                   synthVars, parseVars, stdout>>

\* the failed entry is dropped and collection goes on
WorkerRaiseIgnored ==
    /\ pc = "workers_collect"
    /\ wk <= Len(pdf_results)
    /\ wtask[wk] = "error"
    /\ wres' = [wres EXCEPT ![wk] = <<<<>>, pdf_results[wk].path>>]
    /\ wk' = wk + 1
    /\ UNCHANGED <<QUESTION, urls, pc, crashedAt, fetchVars, plannerVars, wtask,
                   wreq, completed, extracted_info_list, extracted_info,
                   synthVars, parseVars, stdout>>

\* the next result is an exception: re-raised in the main thread; the tasks no
\* thread has started are cancelled and the with block waits for the others
WorkerRaise ==
    /\ pc = "workers_collect"
    /\ wk <= Len(pdf_results)
    /\ wtask[wk] = "error"
    /\ wtask' = [i \in DOMAIN wtask |-> IF wtask[i] = "pending" THEN "cancelled"
                                        ELSE wtask[i]]
    /\ pc' = "workers_abort"
    /\ UNCHANGED <<QUESTION, urls, crashedAt, fetchVars, plannerVars, wreq, wres, wk,
                   completed, extracted_info_list, extracted_info, synthVars,
                   parseVars, stdout>>

\* executor shutdown done: the exception leaves the cell
WorkerAbort ==
    /\ pc = "workers_abort"
    /\ \A i \in DOMAIN wtask : wtask[i] \notin WorkerRunning
    /\ pc' = "crashed"
    /\ crashedAt' = "workers"
    /\ UNCHANGED <<QUESTION, urls, fetchVars, plannerVars, workerVars, synthVars,
                   parseVars, stdout>>

\* quarter = os.path.basename(pdf_path).split("-")[1]
Quarter(pdf_path) == Split(Basename(pdf_path), "-")[2]

\* f"<info quarter=\"{quarter}\">{info}</info>\n"
InfoBlock(info, pdf_path) ==
    <<"<info quarter=\"">> \o Quarter(pdf_path) \o <<"\">">> \o info
    \o <<"</info>\n">>

\* the aggregation loop over a list of (info, pdf_path)
RECURSIVE Combine(_)
Combine(list) ==
    IF list = <<>> THEN <<>>
    ELSE InfoBlock(list[1][1], list[1][2]) \o Combine(Tail(list))

\* the results in the order the tasks finished (as_completed)
AsCompleted(results, finished) ==
    [k \in 1..Len(finished) |-> results[finished[k]]]

\* the list executor.map yields: the results in the order of the inputs
MapResults(results, finished) == [i \in 1..Len(results) |-> results[i]]

\* a streaming merge: the context is built from the results collected so far
AggregateEarly ==
    /\ pc = "workers_collect"
    /\ wk <= Len(pdf_results) + 1
    /\ extracted_info_list' = SubSeq(wres, 1, wk - 1)
    /\ extracted_info' = Combine(SubSeq(wres, 1, wk - 1))
    /\ stdout' = stdout \o Combine(SubSeq(wres, 1, wk - 1))
    /\ pc' = "synth"
    /\ UNCHANGED <<QUESTION, urls, crashedAt, fetchVars, plannerVars, wtask, wreq,
                   wres, wk, completed, synthVars, parseVars>>

\* every worker returned: extracted_info_list is built and combined
Aggregate ==
    /\ pc = "workers_collect"
    /\ wk = Len(pdf_results) + 1
    /\ extracted_info_list' = MapResults(wres, completed)
    /\ extracted_info' = Combine(MapResults(wres, completed))
    /\ stdout' = stdout \o Combine(MapResults(wres, completed))
    /\ pc' = "synth"
    /\ UNCHANGED <<QUESTION, urls, crashedAt, fetchVars, plannerVars, wtask, wreq,
                   wres, wk, completed, synthVars, parseVars>>

----------------------------------------------------------------------------
(* Step 6: the synthesis call *)

\* the tags the synthesis request names
RequestOpenTag == <<"<", "p", "y", "t", "h", "o", "n", "_", "c", "o", "d", "e", ">">>
RequestCloseTag ==
    <<"<", "/", "p", "y", "t", "h", "o", "n", "_", "c", "o", "d", "e", ">">>

\* the text part of the synthesis request
SynthRequest(question, info) ==
    <<"Based on the following extracted information from Amazon's earnings releases, please provide a response to the question: ">>
    \o question.val
    \o <<"Also, please generate Python code using the matplotlib library to accompany your response. Enclose the code within ">>
    \o RequestOpenTag
    \o <<" tags.", "Extracted Information:">>
    \o info

\* the tags extract_code looks for
StartTag == <<"<", "p", "y", "t", "h", "o", "n", ">">>
EndTag == <<"<", "/", "p", "y", "t", "h", "o", "n", ">">>

\* the shapes of synthesis answers: a prefix, a fragment and a suffix around tags
Prefixes == {<<>>, <<" ", "O", "k", " ">>, <<"a", "\n">>}
Fragments == {<<>>, <<"x">>, <<"\n", "y", "=", "1", "\n">>}
Suffixes == {<<>>, <<" ", "z">>}

WellFormed(P, F, S) == P \o StartTag \o F \o EndTag \o S
OnlyStart(P, F, S) == P \o StartTag \o F \o S
OnlyEnd(P, F, S) == P \o F \o EndTag \o S
NoTags(P, F, S) == P \o F \o S
EndFirst(P, F, S) == P \o EndTag \o F \o StartTag \o S
AsRequested(P, F, S) == P \o RequestOpenTag \o F \o RequestCloseTag \o S

\* the synthesis answers extract_code is tried on
ParseInputs ==
    UNION {{WellFormed(P, F, S), OnlyStart(P, F, S), OnlyEnd(P, F, S),
            NoTags(P, F, S), EndFirst(P, F, S), AsRequested(P, F, S)} :
           <<P, F, S>> \in Prefixes \X Fragments \X Suffixes}

\* the synthesis answers a whole pipeline run is tried on
PipelineResponses ==
    {WellFormed(<<" ", "O", "k", " ">>, <<"x">>, <<>>),
     AsRequested(<<" ", "O", "k", " ">>, <<"x">>, <<>>),
     EndFirst(<<"a", "\n">>, <<"x">>, <<>>),
     NoTags(<<"a", "\n">>, <<"x">>, <<" ", "z">>)}

\* the synthesis cell up to client.invoke_model
SynthCall ==
    /\ pc = "synth"
    /\ sreq' = SynthRequest(QUESTION, extracted_info)
    /\ sstate' = "pending"
    /\ pc' = "synth_wait"
    /\ UNCHANGED <<QUESTION, urls, crashedAt, fetchVars, plannerVars, workerVars,
                   content_text, parseVars, stdout>>

\* the call returns: content_text is assigned and printed
SynthOk ==
    /\ pc = "synth_wait"
    /\ sstate = "pending"
    /\ \E r \in PipelineResponses :
        /\ content_text' = r
        /\ stdout' = stdout \o <<"[Formatted Response Content Text]">> \o r
    /\ sstate' = "ok"
    /\ pc' = "extract"
    /\ UNCHANGED <<QUESTION, urls, crashedAt, fetchVars, plannerVars, workerVars,
                   sreq, parseVars>>

\* the call raises: nothing in the cell catches it
SynthError ==
    /\ pc = "synth_wait"
    /\ sstate = "pending"
    /\ sstate' = "error"
    /\ pc' = "crashed"
    /\ crashedAt' = "synth"
    /\ UNCHANGED <<QUESTION, urls, fetchVars, plannerVars, workerVars, sreq,
                   content_text, parseVars, stdout>>

----------------------------------------------------------------------------
(* Step 7: extract_code and exec *)

\* the offset added to start in response[start+6:end]
CodeOffset == 6

\* one tag found is taken to be enough
EitherTagFound(start, end) == start # -1 \/ end # -1

\* both tags were found
TagsFound(start, end) == start # -1 /\ end # -1

\* extract_code(response): (code, narrative)
extract_code(response) ==
    LET start == Find(response, StartTag)
        end == Find(response, EndTag)
    IN  IF TagsFound(start, end)
        THEN <<PyStr(Strip(PySlice(response, start + CodeOffset, end))),
               Strip(PySlice(response, 0, start))>>
        ELSE <<PyNone, Strip(response)>>

\* code, text = extract_code(content_text); print(text); if code: ...
ExtractCell ==
    /\ pc = "extract"
    /\ code' = extract_code(content_text)[1]
    /\ text' = extract_code(content_text)[2]
    /\ stdout' = stdout \o extract_code(content_text)[2]
    /\ pc' = IF Truthy(extract_code(content_text)[1]) THEN "exec" ELSE "done"
    /\ UNCHANGED <<QUESTION, urls, crashedAt, fetchVars, plannerVars, workerVars,
                   synthVars, executed>>

\* exec(code) runs to its end
ExecOk ==
    /\ pc = "exec"
    /\ executed' = Append(executed, code.val)
    /\ pc' = "done"
    /\ UNCHANGED <<QUESTION, urls, crashedAt, fetchVars, plannerVars, workerVars,
                   synthVars, code, text, stdout>>

\* exec(code) raises an Exception and nothing catches it
ExecRaiseUncaught ==
    /\ pc = "exec"
    /\ executed' = Append(executed, code.val)
    /\ pc' = "crashed"
    /\ crashedAt' = "exec"
    /\ UNCHANGED <<QUESTION, urls, fetchVars, plannerVars, workerVars, synthVars,
                   code, text, stdout>>

\* exec(code) raises an Exception: caught and printed
ExecRaise ==
    /\ pc = "exec"
    /\ executed' = Append(executed, code.val)
    /\ stdout' = Append(stdout, "Error executing code")
    /\ pc' = "done"
    /\ UNCHANGED <<QUESTION, urls, crashedAt, fetchVars, plannerVars, workerVars,
                   synthVars, code, text>>

----------------------------------------------------------------------------
Init ==
    /\ QUESTION \in Questions
    /\ urls = pdf_urls
    /\ pc = "fetch"
    /\ crashedAt = "none"
    /\ ftask = [d \in Docs |-> "unsubmitted"]
    /\ fres = [d \in Docs |-> PdfNone]
    /\ fk = 0
    /\ disk = <<>>
    /\ docPages = [d \in Docs |-> 0]
    /\ docDims = [d \in Docs |-> <<>>]
    /\ failedDownloads = {}
    /\ pdf_results = <<>>
    /\ plannerCalls = 0
    /\ pstate = "none"
    /\ lite_prompt = PyNone
    /\ wtask = <<>>
    /\ wreq = <<>>
    /\ wres = <<>>
    /\ wk = 0
    /\ completed = <<>>
    /\ extracted_info_list = <<>>
    /\ extracted_info = <<>>
    /\ sstate = "none"
    /\ sreq = <<>>
    /\ content_text = <<>>
    /\ code = PyNone
    /\ text = <<>>
    /\ stdout = <<>>
    /\ executed = <<>>

Next ==
    \/ FetchFanOut
    \/ \E d \in Docs : FetchStart(d)
    \/ \E d \in Docs : DownloadFail(d)
    \/ \E d \in Docs : DownloadWriteError(d)
    \/ \E d \in Docs : DownloadOpen(d)
    \/ \E d \in Docs : DownloadOk(d)
    \/ \E d \in Docs : RasterOk(d)
    \/ \E d \in Docs : RasterFail(d)
    \/ FetchCollect
    \/ FetchRaise
    \/ FetchAbort
    \/ FetchDone
    \/ PlannerCall
    \/ PlannerOk
    \/ PlannerError
    \/ WorkerFanOut
    \/ \E i \in DOMAIN wtask : WorkerStart(i)
    \/ \E i \in DOMAIN wtask : WorkerOk(i)
    \/ \E i \in DOMAIN wtask : WorkerFail(i)
    \/ WorkerCollect
    \/ WorkerRaise
    \/ WorkerAbort
    \/ Aggregate
    \/ SynthCall
    \/ SynthOk
    \/ SynthError
    \/ ExtractCell
    \/ ExecOk
    \/ ExecRaise

Spec == Init /\ [][Next]_vars

----------------------------------------------------------------------------
(* extract_code and the cell around it on their own: the run in which every
   download failed, so that the workers had nothing to do, has reached the
   last cell with one of the synthesis answers of ParseInputs *)

InitParse ==
    /\ QUESTION = PyStr(QuestionText)
    /\ urls = pdf_urls
    /\ pc = "extract"
    /\ crashedAt = "none"
    /\ ftask = [d \in Docs |-> "none"]
    /\ fres = [d \in Docs |-> PdfNone]
    /\ fk = Len(pdf_urls) + 1
    /\ disk = <<>>
    /\ docPages = [d \in Docs |-> 0]
    /\ docDims = [d \in Docs |-> <<>>]
    /\ failedDownloads = {pdf_urls[d] : d \in Docs}
    /\ pdf_results = <<>>
    /\ plannerCalls = 1
    /\ pstate = "ok"
    /\ lite_prompt = PyStr(LitePromptText)
    /\ wtask = <<>>
    /\ wreq = <<>>
    /\ wres = <<>>
    /\ wk = 1
    /\ completed = <<>>
    /\ extracted_info_list = <<>>
    /\ extracted_info = <<>>
    /\ sstate = "ok"
    /\ sreq = SynthRequest(PyStr(QuestionText), <<>>)
    /\ content_text \in ParseInputs
    /\ code = PyNone
    /\ text = <<>>
    /\ stdout = <<"[Formatted Response Content Text]">> \o LitePromptText
                \o <<"[Formatted Response Content Text]">> \o content_text
    /\ executed = <<>>

NextParse ==
    \/ ExtractCell
    \/ ExecOk
    \/ ExecRaise

SpecParse == InitParse /\ [][NextParse]_vars

----------------------------------------------------------------------------
(* pdf_to_base64_pngs on its own: one download left a readable document of
   RasterInputs on disk, the others failed, and the task holding the document
   is about to convert it *)

InitRaster ==
    /\ QUESTION = PyStr(QuestionText)
    /\ urls = pdf_urls
    /\ pc = "fetch_collect"
    /\ crashedAt = "none"
    /\ \E d \in Docs, pages \in RasterInputs :
        /\ ftask = [e \in Docs |-> IF e = d THEN "saved" ELSE "none"]
        /\ disk = (FileName(urls[d]) :> d)
        /\ docDims = [e \in Docs |-> IF e = d THEN pages ELSE <<>>]
        /\ failedDownloads = {urls[e] : e \in Docs \ {d}}
    /\ fres = [d \in Docs |-> PdfNone]
    /\ fk = 1
    /\ docPages = [d \in Docs |-> 0]
    /\ pdf_results = <<>>
    /\ plannerCalls = 0
    /\ pstate = "none"
    /\ lite_prompt = PyNone
    /\ wtask = <<>>
    /\ wreq = <<>>
    /\ wres = <<>>
    /\ wk = 0
    /\ completed = <<>>
    /\ extracted_info_list = <<>>
    /\ extracted_info = <<>>
    /\ sstate = "none"
    /\ sreq = <<>>
    /\ content_text = <<>>
    /\ code = PyNone
    /\ text = <<>>
    /\ stdout = <<>>
    /\ executed = <<>>

NextRaster ==
    \/ \E d \in Docs : RasterOk(d)
    \/ \E d \in Docs : RasterFail(d)

SpecRaster == InitRaster /\ [][NextRaster]_vars

----------------------------------------------------------------------------
(* the fetch cell on its own, handed any list of UrlLists *)

InitWriters ==
    /\ QUESTION = PyStr(QuestionText)
    /\ urls \in UrlLists
    /\ pc = "fetch"
    /\ crashedAt = "none"
    /\ ftask = [d \in Docs |-> "unsubmitted"]
    /\ fres = [d \in Docs |-> PdfNone]
    /\ fk = 0
    /\ disk = <<>>
    /\ docPages = [d \in Docs |-> 0]
    /\ docDims = [d \in Docs |-> <<>>]
    /\ failedDownloads = {}
    /\ pdf_results = <<>>
    /\ plannerCalls = 0
    /\ pstate = "none"
    /\ lite_prompt = PyNone
    /\ wtask = <<>>
    /\ wreq = <<>>
    /\ wres = <<>>
    /\ wk = 0
    /\ completed = <<>>
    /\ extracted_info_list = <<>>
    /\ extracted_info = <<>>
    /\ sstate = "none"
    /\ sreq = <<>>
    /\ content_text = <<>>
    /\ code = PyNone
    /\ text = <<>>
    /\ stdout = <<>>
    /\ executed = <<>>

NextWriters ==
    \/ FetchFanOut
    \/ \E d \in Docs : FetchStart(d)
    \/ \E d \in Docs : DownloadFail(d)
    \/ \E d \in Docs : DownloadWriteError(d)
    \/ \E d \in Docs : DownloadOpen(d)
    \/ \E d \in Docs : DownloadOk(d)
    \/ \E d \in Docs : RasterOk(d)
    \/ \E d \in Docs : RasterFail(d)
    \/ FetchCollect
    \/ FetchRaise
    \/ FetchAbort
    \/ FetchDone

SpecWriters == InitWriters /\ [][NextWriters]_vars

----------------------------------------------------------------------------
(* The claims *)

ValidQuestion == QUESTION.type = "str" /\ QUESTION.val # <<>>

WorkerIssued(i) == wtask[i] \in {"running", "ok", "error"}

BeforePlannerCell == pc \in {"fetch", "fetch_collect", "fetch_abort", "planner"}

AfterAggregate == pc \in {"synth", "synth_wait", "extract", "exec", "done"}
                  \/ (pc = "crashed" /\ crashedAt = "synth")

WorkerStageOver == AfterAggregate \/ (pc = "crashed" /\ crashedAt = "workers")

FetchStageOver == pc \notin {"fetch", "fetch_collect", "fetch_abort"}

AfterExtract == pc \in {"exec", "done"}

\* the documents process_pdf returned a result for, and the i-th of them in
\* the order of pdf_urls
OkDocs == {d \in Docs : ftask[d] = "ok"}
NthOk(i) == CHOOSE d \in OkDocs : Cardinality({e \in OkDocs : e <= d}) = i

\* every page image of document d, in page order
AllPagesOf(d) ==
    [p \in 1..docPages[d] |-> Png(d, p, ImageSize(docDims[d][p]))]

\* tag occurs somewhere in s
HasTag(s, tag) ==
    \E i \in 1..Len(s) :
        i + Len(tag) - 1 <= Len(s) /\ SubSeq(s, i, i + Len(tag) - 1) = tag

\* C1: in a run with a valid question the planner request is sent exactly
\* once, and no worker request is sent before the planner call has returned:
\* while the planner call is unmade or pending no worker task exists, and once
\* the planner cell is left exactly one planner request has been sent.
C1_PlannerOnceBeforeWorkers ==
    ValidQuestion =>
        /\ plannerCalls <= 1
        /\ (pstate \in {"none", "pending"} => wtask = <<>>)
        /\ (\E i \in DOMAIN wtask : WorkerIssued(i)) =>
               (plannerCalls = 1 /\ pstate = "ok")
        /\ (~BeforePlannerCell /\ crashedAt # "fetch") => plannerCalls = 1

C1_Witness ==
    /\ ValidQuestion
    /\ plannerCalls = 1
    /\ \E i \in DOMAIN wtask : wtask[i] = "running"

\* C2 as stated: once the worker stage is over, exactly one worker request
\* per entry of pdf_results has been sent, each carrying exactly the page
\* images of its own document.
C2_ExactlyNRequests ==
    WorkerStageOver =>
        /\ Len(wtask) = Len(pdf_results)
        /\ \A i \in 1..Len(pdf_results) :
              /\ WorkerIssued(i)
              /\ ImageParts(wreq[i]) = AllPagesOf(NthOk(i))

\* C2 amended: every worker request that is sent carries exactly the page
\* images of its own document, in page order, no task sends more than one
\* request and there are never more tasks than entries of pdf_results; when no
\* worker call raises (the fan-out returns), exactly one request per entry has
\* been sent.
C2_OwnPagesOnePerDocument ==
    /\ Len(wtask) \in {0, Len(pdf_results)}
    /\ \A i \in DOMAIN wtask :
          IF WorkerIssued(i)
          THEN /\ ImageParts(wreq[i]) = AllPagesOf(NthOk(i))
               /\ Len(wreq[i].content) = docPages[NthOk(i)] + 1
          ELSE wreq[i] = NoRequest
    /\ AfterAggregate =>
          /\ Len(wtask) = Cardinality(OkDocs)
          /\ \A i \in DOMAIN wtask : WorkerIssued(i)

C2_Witness ==
    /\ pc = "synth"
    /\ Len(pdf_results) = Len(pdf_urls)
    /\ docPages[1] = 1
    /\ docPages[2] = MaxPages
    /\ \A i \in DOMAIN wtask : wtask[i] = "ok"

\* C3: whatever order the worker calls finish in, extracted_info is the
\* concatenation of the labeled entries in the order of pdf_results (the
\* document input order), each built from that document's own response.
C3_ContextInInputOrder ==
    AfterAggregate =>
        /\ extracted_info =
              Combine([i \in 1..Len(pdf_results) |->
                          <<wres[i][1], pdf_results[i].path>>])
        /\ \A i \in 1..Len(pdf_results) :
              /\ extracted_info_list[i][2] = FileName(pdf_urls[NthOk(i)])
              /\ extracted_info_list[i][1] = wres[i][1]

C3_Witness ==
    /\ pc = "synth"
    /\ completed = <<4, 3, 2, 1>>
    /\ extracted_info # <<>>

\* C4: for a synthesis answer P + "<python>" + F + "</python>" + S,
\* extract_code returns F stripped as the code and P stripped as the narrative.
C4_RoundTrip ==
    AfterExtract =>
        \A P \in Prefixes, F \in Fragments, S \in Suffixes :
            content_text = WellFormed(P, F, S) =>
                /\ code = PyStr(Strip(F))
                /\ text = Strip(P)

\* C5: for a synthesis answer that lacks the start tag, the end tag or both,
\* extract_code returns None as the code and the whole answer stripped as the
\* narrative, and nothing is handed to exec.
C5_MissingTagNoCode ==
    (AfterExtract
     /\ (~HasTag(content_text, StartTag) \/ ~HasTag(content_text, EndTag))) =>
        /\ code = PyNone
        /\ text = Strip(content_text)
        /\ pc = "done"
        /\ executed = <<>>

C5_Witness ==
    /\ pc = "done"
    /\ HasTag(content_text, StartTag)
    /\ ~HasTag(content_text, EndTag)
    /\ text = Strip(content_text)
    /\ text # content_text

\* the answer has no tag pair in order: a tag is missing, or the first end tag
\* comes before the first start tag
Malformed(s) ==
    \/ ~HasTag(s, StartTag)
    \/ ~HasTag(s, EndTag)
    \/ Find(s, EndTag) < Find(s, StartTag)

\* C6: for a synthesis answer whose tags are malformed or absent the narrative
\* is the whole answer stripped and nothing is handed to exec.
C6_MalformedIsNarrative ==
    (AfterExtract /\ Malformed(content_text)) =>
        /\ text = Strip(content_text)
        /\ pc = "done"
        /\ executed = <<>>

\* C7: with a question that is empty or not a string no model request is ever
\* sent: no planner request, no worker request, no synthesis request, and the
\* planner cell ends the run with the uncaught ValueError.
C7_InvalidQuestionNoModelCall ==
    ~ValidQuestion =>
        /\ plannerCalls = 0
        /\ pstate = "none"
        /\ wtask = <<>>
        /\ sstate = "none"
        /\ ~BeforePlannerCell => pc = "crashed"

C7_Witness ==
    /\ QUESTION = PyInt(<<"5">>)
    /\ pc = "crashed"
    /\ crashedAt = "planner"
    /\ plannerCalls = 0

\* C8: when the planner call raises or returns an empty prompt the run ends
\* there: no worker task is created, no synthesis request is sent and the
\* planner request is not sent again.
C8_PlannerFailureHalts ==
    (pstate = "error" \/ (pstate = "ok" /\ lite_prompt.val = <<>>)) =>
        /\ pc = "exited"
        /\ plannerCalls = 1
        /\ wtask = <<>>
        /\ sstate = "none"

C8_Witness ==
    /\ pc = "exited"
    /\ pstate = "ok"
    /\ lite_prompt = PyStr(<<>>)

\* C9: whatever makes one download fail (a request error or a write error),
\* every other document's process_pdf task still runs to its end and every
\* result it returned is in pdf_results.  (Runs in which a rasterization
\* fails are the subject of C10 and are left out here.)
C9_FetchFailuresIsolated ==
    (FetchStageOver /\ \A d \in Docs : ftask[d] # "rasterror") =>
        \A d \in Docs :
            /\ ftask[d] \in {"none", "ok", "oserror"}
            /\ ftask[d] = "ok" =>
                   \E i \in 1..Len(pdf_results) : pdf_results[i] = fres[d]

\* C10: when the rasterization of one document raises, only that document is
\* left out: every other downloaded document is rasterized and is an entry of
\* pdf_results, and the run goes on to the later stages.  (Runs with a write
\* error are the subject of C9 and are left out here.)
C10_RasterFailureIsolated ==
    (FetchStageOver
     /\ (\E d \in Docs : ftask[d] = "rasterror")
     /\ (\A d \in Docs : ftask[d] # "oserror")) =>
        /\ crashedAt # "fetch"
        /\ \A d \in Docs :
              /\ ftask[d] \in {"none", "ok", "rasterror"}
              /\ ftask[d] = "ok" =>
                     \E i \in 1..Len(pdf_results) : pdf_results[i] = fres[d]

\* C11: the synthesis call is made only behind a full barrier: whenever the
\* combined context has been built or the synthesis request sent, there is one
\* worker task per entry of pdf_results and every one of them has returned;
\* and the request, once sent, carries the labeled block of every worker's
\* result.
C11_SynthesisAfterAllWorkers ==
    (AfterAggregate \/ sstate # "none") =>
        /\ DOMAIN wtask = 1..Len(pdf_results)
        /\ \A i \in DOMAIN wtask : wtask[i] = "ok"
        /\ sstate # "none" =>
            \A i \in DOMAIN wtask :
                HasTag(sreq, InfoBlock(wres[i][1], wres[i][2]))

\* the synthesis call is pending after four workers returned, the second of
\* them first
C11_Witness ==
    /\ sstate = "pending"
    /\ Len(pdf_results) = Len(pdf_urls)
    /\ completed[1] = 2

\* C12: a worker call that raised is fatal to the pipeline: from then on no
\* result list and no combined context exist, no synthesis request is built
\* or sent, no worker is asked a second time, and the run can only be in the
\* worker stage or have left it with the exception.
C12_WorkerFailureIsFatal ==
    (\E i \in DOMAIN wtask : wtask[i] = "error") =>
        /\ extracted_info_list = <<>>
        /\ extracted_info = <<>>
        /\ sstate = "none"
        /\ sreq = <<>>
        /\ pc \in {"workers_collect", "workers_abort", "crashed"}
        /\ pc = "crashed" => crashedAt = "workers"

\* the run ended in the worker stage with one worker failed and another one
\* returned
C12_Witness ==
    /\ pc = "crashed"
    /\ crashedAt = "workers"
    /\ \E i, j \in DOMAIN wtask : wtask[i] = "error" /\ wtask[j] = "ok"

\* text is the end of what has been printed, leaving out the report of a
\* failed exec
NarrativePrintedLast ==
    LET out == IF stdout # <<>> /\ Last(stdout) = "Error executing code"
               THEN SubSeq(stdout, 1, Len(stdout) - 1) ELSE stdout
    IN  /\ Len(out) >= Len(text)
        /\ SubSeq(out, Len(out) - Len(text) + 1, Len(out)) = text

\* C13: a fragment whose execution raises an Exception leaves the run at its
\* normal end with the error reported, and the narrative is printed in every
\* run that reaches the last cell, before the fragment runs: when exec is about
\* to start nothing has been executed and the narrative is already the end of
\* the output; after exec, failed or not, the run is at its end, not crashed,
\* at most one fragment was executed, and the narrative is still in the output.
C13_ExecFailureCaughtNarrativeFirst ==
    /\ pc = "exec" => executed = <<>> /\ NarrativePrintedLast
    /\ AfterExtract => NarrativePrintedLast /\ crashedAt = "none"
    /\ executed # <<>> =>
        /\ pc = "done"
        /\ crashedAt = "none"
        /\ executed = <<code.val>>
    /\ crashedAt # "exec"

\* a fragment was executed and failed, and a narrative had been printed
C13_Witness ==
    /\ pc = "done"
    /\ executed # <<>>
    /\ text # <<>>
    /\ Last(stdout) = "Error executing code"

\* the block of input i is labeled Qi
LabeledByQuarter(list) ==
    LET labels == <<(<<"Q1">>), (<<"Q2">>), (<<"Q3">>), (<<"Q4">>)>>
    IN  /\ Len(list) = Len(labels)
        /\ \A i \in 1..Len(list) : Quarter(list[i][2]) = labels[i]
        /\ \A i, j \in 1..Len(list) :
            i # j => Quarter(list[i][2]) # Quarter(list[j][2])

\* C14: with the four configured documents fetched and four workers returned,
\* the combined context consists of four labeled blocks in input order whose
\* labels are Q1, Q2, Q3, Q4, pairwise distinct.
C14_FourBlocksLabeledQ1toQ4 ==
    (AfterAggregate /\ Len(pdf_results) = Len(pdf_urls)) =>
        /\ LabeledByQuarter(extracted_info_list)
        /\ extracted_info = Combine(extracted_info_list)

\* C18: a response that encloses a fragment F in exactly the tags the
\* synthesis request asks for has F, trimmed, returned as the code by
\* extract_code, and F is what is executed.
C18_RequestedTagsAreParsed ==
    (AfterExtract /\ HasTag(sreq, RequestOpenTag)
        /\ \E P \in Prefixes, F \in Fragments, S \in Suffixes :
            /\ content_text = AsRequested(P, F, S)
            /\ Strip(F) # <<>>) =>
        /\ code.type = "str"
        /\ \E P \in Prefixes, F \in Fragments, S \in Suffixes :
            /\ content_text = AsRequested(P, F, S)
            /\ code.val = Strip(F)
        /\ pc = "done" => executed = <<code.val>>

\* C15: for every readable document with P pages pdf_to_base64_pngs returns
\* exactly P images, the i-th made from the i-th page of that document, and
\* every image is at most 1024 wide and at most 1024 high.
C15_OneBoundedImagePerPage ==
    \A d \in Docs :
        ftask[d] = "ok" =>
            /\ Len(fres[d].pngs) = Len(docDims[d])
            /\ \A i \in 1..Len(docDims[d]) :
                /\ fres[d].pngs[i].doc = d
                /\ fres[d].pngs[i].page = i
                /\ fres[d].pngs[i].width \in 1..1024
                /\ fres[d].pngs[i].height \in 1..1024

\* a document of MaxPages pages was converted, one page of which rendered
\* larger than the cap in width only and was reduced
C15_Witness ==
    \E d \in Docs :
        /\ ftask[d] = "ok"
        /\ Len(fres[d].pngs) = MaxPages
        /\ \E i \in 1..Len(docDims[d]) :
            /\ Rendered(docDims[d][i])[1] > 1024
            /\ Rendered(docDims[d][i])[2] <= 1024
            /\ fres[d].pngs[i].width = 1024

\* C16: after the fetch cell, pdf_results holds exactly the documents whose
\* process_pdf task returned a result, in the order of their locators, each
\* entry pairing the document's local path with that document's page images;
\* a document whose download failed is in no entry.
C16_ResultsAreFetchedDocsInOrder ==
    FetchStageOver =>
        /\ Len(pdf_results) = Cardinality(OkDocs)
        /\ \A i \in 1..Len(pdf_results) :
            /\ pdf_results[i].path = FileName(urls[NthOk(i)])
            /\ pdf_results[i].pngs = AllPagesOf(NthOk(i))
        /\ \A d \in Docs :
            ftask[d] = "none" =>
                \A i \in 1..Len(pdf_results) :
                    /\ pdf_results[i].path # FileName(urls[d])
                    /\ \A k \in 1..Len(pdf_results[i].pngs) :
                        pdf_results[i].pngs[k].doc # d

\* two tasks have the same file open for writing
SharedWriter ==
    \E d, e \in Docs :
        /\ d # e
        /\ ftask[d] = "writing"
        /\ ftask[e] = "writing"
        /\ FileName(urls[d]) = FileName(urls[e])

\* the last segments of the locators are pairwise distinct
DistinctLastSegments ==
    \A d, e \in Docs :
        d # e => Last(Split(urls[d], "/")) # Last(Split(urls[e], "/"))

\* C17 as stated: whatever list of locators is passed to the fan-out, no two
\* download_pdf tasks have the same local file open for writing at a time.
C17_OneWriterPerFile == ~SharedWriter

\* C17: for every list of locators whose last path segments are pairwise
\* distinct, no two download_pdf tasks have the same local file open for
\* writing at a time.
C17_OneWriterPerDistinctName == DistinctLastSegments => ~SharedWriter

\* two tasks write at the same time, each to a file of its own
C17_Witness ==
    /\ DistinctLastSegments
    /\ \E d, e \in Docs :
        /\ d # e
        /\ ftask[d] = "writing"
        /\ ftask[e] = "writing"
        /\ FileName(urls[d]) # FileName(urls[e])

====
